---- MODULE Spec2Model ----
(***************************************************************************)
(* A model of zipios::DirectoryCollection (src/src/directorycollection.cpp) *)
(* together with the part of the filesystem it reads.                       *)
(*                                                                          *)
(* Paths (FilePath, entry names, lookup names) are sequences of path        *)
(* components; FilePath's operator+ is concatenation (\o) and the empty     *)
(* FilePath() is << >>.                                                      *)
(***************************************************************************)
EXTENDS Integers, Sequences, FiniteSets, TLC

VARIABLES fs, order, inst, hist, res, fsChanges, held, run, walk

vars == <<fs, order, inst, hist, res, fsChanges, held, run, walk>>

----------------------------------------------------------------------------
(* Bounds                                                                   *)

\* number of changes other programs make to the directory tree
MaxFsChanges == 1
\* number of changes the client makes to a sequence it got from entries()
MaxMutations == 1
\* number of calls of load() nested in each other that are followed
MaxDepth == 4

\* the objects the client holds: one it constructs, one it gets from clone()
Insts == {"orig", "copy"}

----------------------------------------------------------------------------
(* The filesystem                                                           *)

Names == {"a", "b"}

Root == <<"d">>

\* every path the filesystem may hold a node at
Paths ==
    {Root, <<"f">>}
        \cup {Root \o <<n>> : n \in Names}
        \cup {Root \o <<"a", "b">>}

\* paths a collection may be constructed over ("m" never exists)
CtorPaths == {Root, <<"f">>, <<"m">>}

Kind == {"none", "file", "dir"}

Parent(p) == SubSeq(p, 1, Len(p) - 1)

WellFormed(F) ==
    \A p \in Paths :
        (Len(p) > 1 /\ F[p] # "none") => F[Parent(p)] = "dir"

NoFs == [p \in Paths |-> "none"]

Perms(S) ==
    {s \in [1..Cardinality(S) -> S] : \A x \in S : \E k \in DOMAIN s : s[k] = x}

\* FilePath::isDirectory(): stat() of the path says directory
isDirectory(F, p) == p \in Paths /\ F[p] = "dir"

\* boost::filesystem::dir_it over a directory: ".", ".." and the children in
\* the listing order of the filesystem; a directory that cannot be opened
\* lists nothing
dir_it(F, ord, p) ==
    IF isDirectory(F, p)
    THEN <<".", "..">> \o
         SelectSeq(ord, LAMBDA n : (p \o <<n>>) \in Paths /\ F[p \o <<n>>] # "none")
    ELSE << >>

----------------------------------------------------------------------------
(* Entries                                                                  *)

\* new DirectoryEntry(filename, comment): the entry keeps the path it was
\* given as its name and stats it once
DirectoryEntry(F, filename, comment) ==
    [name |-> filename, isDir |-> isDirectory(F, filename), comment |-> comment]

\* FileEntry::getName(): the path handed to std::ifstream by getInputStream
getName(ent) == ent.name

\* FileEntry::getFileName(): the last component of the name
getFileName(p) == IF p = << >> THEN "" ELSE p[Len(p)]

----------------------------------------------------------------------------
(* DirectoryCollection                                                      *)

\* mutant: close() does not clear the entries
close_KeepsEntries(c) ==
    [c EXCEPT !.m_valid = FALSE, !.m_entries_loaded = FALSE,
              !.m_filename = <<"-">>, !.m_filepath = << >>]

\* mutant: close() leaves the collection valid
close_KeepsValid(c) ==
    [c EXCEPT !.m_entries_loaded = FALSE,
              !.m_entries = << >>, !.m_filename = <<"-">>, !.m_filepath = << >>]

\* mutant: close() leaves the loaded flag set
close_KeepsLoaded(c) ==
    [c EXCEPT !.m_valid = FALSE,
              !.m_entries = << >>, !.m_filename = <<"-">>, !.m_filepath = << >>]

\* DirectoryCollection::close()
close(c) ==
    [c EXCEPT !.m_valid = FALSE, !.m_entries_loaded = FALSE,
              !.m_entries = << >>, !.m_filename = <<"-">>, !.m_filepath = << >>]

\* mutant: clone() builds the new object from the path and the flag only
clone_Unloaded(c) == [c EXCEPT !.m_entries_loaded = FALSE, !.m_entries = << >>]

\* DirectoryCollection::clone(): new DirectoryCollection(*this)
clone(c) == c

\* FileCollection::mustBeValid(): TRUE when it returns, FALSE when it throws
\* InvalidStateException
mustBeValid(c) == c.m_valid

\* mutant: entries are built from the path below the root
entryPath_Relative(filepath, subdir, it) == subdir \o <<it>>

\* m_filepath + subdir + *it: the path load() builds each entry from
entryPath(filepath, subdir, it) == filepath \o subdir \o <<it>>

\* mutant: load() descends into every directory, whatever the flag
descend_Always(recursive, ent) == ent.isDir

\* m_recursive && ent->isDirectory(): whether load() descends into the entry
descend(recursive, ent) == recursive /\ ent.isDir

RECURSIVE loadFrom(_, _, _, _, _, _, _, _)

\* DirectoryCollection::load(subdir): the entries after the loop over the
\* listing of m_filepath + subdir
load(F, ord, filepath, recursive, subdir, entries) ==
    loadFrom(F, ord, filepath, recursive, subdir,
             dir_it(F, ord, filepath \o subdir), 1, entries)

\* mutant: load() descends into a directory before it adds its entry
loadFrom_PostOrder(F, ord, filepath, recursive, subdir, listing, k, entries) ==
    IF k > Len(listing)
    THEN entries
    ELSE LET it == listing[k] IN
         IF it # "." /\ it # ".."
         THEN LET ent == DirectoryEntry(F, entryPath(filepath, subdir, it), "")
                  below == IF descend(recursive, ent)
                           THEN load(F, ord, filepath, recursive, subdir \o <<it>>, entries)
                           ELSE entries
              IN  loadFrom(F, ord, filepath, recursive, subdir, listing, k + 1,
                           Append(below, ent))
         ELSE loadFrom(F, ord, filepath, recursive, subdir, listing, k + 1, entries)

\* the loop of load() from position k of the listing on
loadFrom(F, ord, filepath, recursive, subdir, listing, k, entries) ==
    IF k > Len(listing)
    THEN entries
    ELSE LET it == listing[k] IN
         IF it # "." /\ it # ".."
         THEN LET ent == DirectoryEntry(F, entryPath(filepath, subdir, it), "")
                  pushed == Append(entries, ent)
                  after == IF descend(recursive, ent)
                           THEN load(F, ord, filepath, recursive, subdir \o <<it>>, pushed)
                           ELSE pushed
              IN  loadFrom(F, ord, filepath, recursive, subdir, listing, k + 1, after)
         ELSE loadFrom(F, ord, filepath, recursive, subdir, listing, k + 1, entries)

\* mutant: loadEntries() does not check that the collection is valid
loadEntries_NoValidCheck(F, ord, c) ==
    IF ~c.m_entries_loaded
    THEN [thrown |-> FALSE, scanned |-> TRUE,
          c |-> [c EXCEPT
                   !.m_entries_loaded = TRUE,
                   !.m_entries =
                       load(F, ord, c.m_filepath, c.m_recursive, << >>,
                            Append(c.m_entries, DirectoryEntry(F, c.m_filepath, "")))]]
    ELSE [thrown |-> FALSE, scanned |-> FALSE, c |-> c]

\* mutant: loadEntries() checks that the collection is valid after the scan
loadEntries_LateCheck(F, ord, c) ==
    LET d == IF ~c.m_entries_loaded
             THEN [c EXCEPT
                     !.m_entries_loaded = TRUE,
                     !.m_entries =
                         load(F, ord, c.m_filepath, c.m_recursive, << >>,
                              Append(c.m_entries, DirectoryEntry(F, c.m_filepath, "")))]
             ELSE c
    IN  [thrown |-> ~mustBeValid(c), scanned |-> ~c.m_entries_loaded, c |-> d]

\* mutant: loadEntries() does not record that the entries were loaded
loadEntries_NoFlag(F, ord, c) ==
    IF ~mustBeValid(c)
    THEN [thrown |-> TRUE, scanned |-> FALSE, c |-> c]
    ELSE IF ~c.m_entries_loaded
    THEN [thrown |-> FALSE, scanned |-> TRUE,
          c |-> [c EXCEPT
                   !.m_entries =
                       load(F, ord, c.m_filepath, c.m_recursive, << >>,
                            Append(c.m_entries, DirectoryEntry(F, c.m_filepath, "")))]]
    ELSE [thrown |-> FALSE, scanned |-> FALSE, c |-> c]

\* mutant: loadEntries() does not put the root directory into the entries
loadEntries_NoRoot(F, ord, c) ==
    IF ~mustBeValid(c)
    THEN [thrown |-> TRUE, scanned |-> FALSE, c |-> c]
    ELSE IF ~c.m_entries_loaded
    THEN [thrown |-> FALSE, scanned |-> TRUE,
          c |-> [c EXCEPT
                   !.m_entries_loaded = TRUE,
                   !.m_entries =
                       load(F, ord, c.m_filepath, c.m_recursive, << >>, c.m_entries)]]
    ELSE [thrown |-> FALSE, scanned |-> FALSE, c |-> c]

\* mutant: every call scans the tree again
loadEntries_Rescan(F, ord, c) ==
    IF ~mustBeValid(c)
    THEN [thrown |-> TRUE, scanned |-> FALSE, c |-> c]
    ELSE [thrown |-> FALSE, scanned |-> TRUE,
          c |-> [c EXCEPT
                   !.m_entries_loaded = TRUE,
                   !.m_entries =
                       load(F, ord, c.m_filepath, c.m_recursive, << >>,
                            <<DirectoryEntry(F, c.m_filepath, "")>>)]]

\* DirectoryCollection::loadEntries()
loadEntries(F, ord, c) ==
    IF ~mustBeValid(c)
    THEN [thrown |-> TRUE, scanned |-> FALSE, c |-> c]
    ELSE IF ~c.m_entries_loaded
    THEN [thrown |-> FALSE, scanned |-> TRUE,
          c |-> [c EXCEPT
                   !.m_entries_loaded = TRUE,
                   !.m_entries =
                       load(F, ord, c.m_filepath, c.m_recursive, << >>,
                            Append(c.m_entries, DirectoryEntry(F, c.m_filepath, "")))]]
    ELSE [thrown |-> FALSE, scanned |-> FALSE, c |-> c]

\* mutant: the flag is not set
setLoaded_Skip(c) == c

\* m_entries_loaded = true, the first statement of the scan in loadEntries()
setLoaded(c) == [c EXCEPT !.m_entries_loaded = TRUE]

\* m_entries.push_back(ent) of the root's entry in loadEntries()
pushRoot(F, c) ==
    [c EXCEPT !.m_entries = Append(@, DirectoryEntry(F, c.m_filepath, ""))]

\* the entries load(FilePath()) pushes, in the order it pushes them
pushes(F, ord, c) == load(F, ord, c.m_filepath, c.m_recursive, << >>, << >>)

\* m_entries.push_back(ent) in load()
pushEntry(c, ent) == [c EXCEPT !.m_entries = Append(@, ent)]

\* the entries after which load() may be left by an exception: the listing
\* of the root, or of a subdirectory load() descends into, cannot be read
FaultPoints(full, recursive) ==
    {n \in DOMAIN full : n = 1 \/ descend(recursive, full[n])}

\* DirectoryCollection::loadEntries() on a valid, not loaded collection when
\* an exception leaves load() after n entries were pushed: the flag was set
\* before, and the entries pushed so far stay
loadEntriesThrows(F, ord, c, n) ==
    LET full == load(F, ord, c.m_filepath, c.m_recursive, << >>,
                     Append(c.m_entries, DirectoryEntry(F, c.m_filepath, "")))
    IN  [c EXCEPT !.m_entries_loaded = TRUE, !.m_entries = SubSeq(full, 1, n)]

\* the object before any constructor ran
NoObject ==
    [alive |-> FALSE, m_valid |-> FALSE, m_entries_loaded |-> FALSE,
     m_recursive |-> TRUE, m_filepath |-> << >>, m_filename |-> <<"-">>,
     m_entries |-> << >>]

\* DirectoryCollection::DirectoryCollection()
DefaultConstructor ==
    [alive |-> TRUE, m_valid |-> FALSE, m_entries_loaded |-> FALSE,
     m_recursive |-> TRUE, m_filepath |-> << >>, m_filename |-> <<"-">>,
     m_entries |-> << >>]

\* mutant: the constructor does not test that the path is a directory
PathConstructor_NoDirCheck(F, ord, path, recursive) ==
    [alive |-> TRUE, m_valid |-> TRUE, m_entries_loaded |-> FALSE,
     m_recursive |-> recursive, m_filepath |-> path, m_filename |-> path,
     m_entries |-> << >>]

\* mutant: the constructor reads the directory at once
PathConstructor_Eager(F, ord, path, recursive) ==
    [alive |-> TRUE, m_valid |-> isDirectory(F, path),
     m_entries_loaded |-> isDirectory(F, path),
     m_recursive |-> recursive, m_filepath |-> path, m_filename |-> path,
     m_entries |-> IF isDirectory(F, path)
                   THEN load(F, ord, path, recursive, << >>,
                             <<DirectoryEntry(F, path, "")>>)
                   ELSE << >>]

\* DirectoryCollection::DirectoryCollection(path, recursive)
PathConstructor(F, ord, path, recursive) ==
    [alive |-> TRUE, m_valid |-> isDirectory(F, path), m_entries_loaded |-> FALSE,
     m_recursive |-> recursive, m_filepath |-> path, m_filename |-> path,
     m_entries |-> << >>]

\* FileCollection::entries(): a copy of m_entries
FileCollection_entries(c) == c.m_entries

\* MatchName / MatchFileName of FileCollection::getEntry()
Matches(ent, name, matchpath) ==
    IF matchpath = "MATCH"
    THEN getName(ent) = name
    ELSE getFileName(getName(ent)) = getFileName(name)

\* FileCollection::getEntry(): the first matching entry, as a sequence of
\* length 1, or << >> for the null pointer
FileCollection_getEntry(c, name, matchpath) ==
    LET hits == {k \in DOMAIN c.m_entries : Matches(c.m_entries[k], name, matchpath)}
    IN  IF hits = {}
        THEN << >>
        ELSE <<c.m_entries[CHOOSE k \in hits : \A h \in hits : k <= h]>>

\* mutant: entries() returns a reference to m_entries
entries_Reference(F, ord, c) ==
    LET l == loadEntries(F, ord, c)
    IN  [thrown |-> l.thrown, scanned |-> l.scanned, c |-> l.c, shared |-> TRUE,
         value |-> IF l.thrown THEN << >> ELSE FileCollection_entries(l.c)]

\* DirectoryCollection::entries(): the vector is returned by value, so the
\* caller's sequence is not shared with the collection
entries(F, ord, c) ==
    LET l == loadEntries(F, ord, c)
    IN  [thrown |-> l.thrown, scanned |-> l.scanned, c |-> l.c, shared |-> FALSE,
         value |-> IF l.thrown THEN << >> ELSE FileCollection_entries(l.c)]

\* mutant: getEntry() returns the last entry that matches
getEntry_LastMatch(F, ord, c, name, matchpath) ==
    LET l == loadEntries(F, ord, c)
        hits == {k \in DOMAIN l.c.m_entries : Matches(l.c.m_entries[k], name, matchpath)}
    IN  [thrown |-> l.thrown, scanned |-> l.scanned, c |-> l.c,
         value |-> IF l.thrown \/ hits = {}
                   THEN << >>
                   ELSE <<l.c.m_entries[CHOOSE k \in hits : \A h \in hits : k >= h]>>]

\* DirectoryCollection::getEntry()
getEntry(F, ord, c, name, matchpath) ==
    LET l == loadEntries(F, ord, c)
    IN  [thrown |-> l.thrown, scanned |-> l.scanned, c |-> l.c,
         value |-> IF l.thrown THEN << >>
                   ELSE FileCollection_getEntry(l.c, name, matchpath)]

\* std::ifstream(path, in | binary): the stream and whether it opened
ifstream(F, path) ==
    [path |-> path, good |-> path \in Paths /\ F[path] = "file"]

\* mutant: getInputStream() opens directories too
getInputStream_NoDirCheck(F, ord, c, entry_name, matchpath) ==
    LET g == getEntry(F, ord, c, entry_name, matchpath)
    IN  [thrown |-> g.thrown, scanned |-> g.scanned, c |-> g.c,
         value |-> IF g.thrown \/ g.value = << >>
                   THEN << >>
                   ELSE <<ifstream(F, getName(g.value[1]))>>]

\* DirectoryCollection::getInputStream(): the stream as a sequence of length
\* 1, or << >> for the null stream pointer
getInputStream(F, ord, c, entry_name, matchpath) ==
    LET g == getEntry(F, ord, c, entry_name, matchpath)
    IN  [thrown |-> g.thrown, scanned |-> g.scanned, c |-> g.c,
         value |-> IF g.thrown \/ g.value = << >> \/ g.value[1].isDir
                   THEN << >>
                   ELSE <<ifstream(F, getName(g.value[1]))>>]

\* DirectoryCollection::size()
size(F, ord, c) ==
    LET l == loadEntries(F, ord, c)
    IN  [thrown |-> l.thrown, scanned |-> l.scanned, c |-> l.c,
         value |-> IF l.thrown THEN 0 ELSE Len(l.c.m_entries)]

----------------------------------------------------------------------------
(* The client: calls on the objects, and the rest of the world changing the *)
(* directory tree                                                           *)

\* names a client looks up
LookupNames ==
    {Root, <<"a", "b">>, Root \o <<"a", "b">>, <<"x", "b">>}

MatchPath == {"MATCH", "IGNORE"}

\* what is remembered about an object's past
NoHistory ==
    [scans |-> 0, closed |-> FALSE, fromDir |-> FALSE, scanFs |-> NoFs,
     seen |-> << >>, again |-> FALSE]

\* the outcome of the latest call
NoResult ==
    [op |-> "none", inst |-> "", other |-> "", name |-> << >>, mode |-> "MATCH",
     status |-> "ok", size |-> 0, entries |-> << >>, entry |-> << >>,
     stream |-> << >>]

\* the sequence the client keeps from its latest entries() call
NoHeld == [of |-> "", shared |-> FALSE, value |-> << >>, touched |-> 0]

\* what the client sees in the sequence it keeps
View(h, objects) == IF h.shared THEN objects[h.of].m_entries ELSE h.value

\* the threads that share one object
Threads == {"t1", "t2"}

\* no threads at work
NoRun ==
    [locked |-> FALSE, lock |-> "", obj |-> NoObject,
     pc |-> [t \in Threads |-> "idle"],
     todo |-> [t \in Threads |-> << >>],
     ret |-> [t \in Threads |-> 0]]

\* no scan under way
\* no symbolic link in the tree
NoLink == [at |-> << >>, to |-> << >>]

NoWalk == [pc |-> "idle", link |-> NoLink, obj |-> NoObject, stack |-> << >>]

Status(r) == IF r.thrown THEN "InvalidState" ELSE "ok"

Scanned(i, r) ==
    IF r.scanned
    THEN [hist EXCEPT ![i].scans = @ + 1, ![i].scanFs = fs]
    ELSE hist

Init ==
    /\ fs \in {F \in [Paths -> Kind] : WellFormed(F) /\ F[<<"f">>] = "file"}
    /\ order \in Perms(Names)
    /\ inst = [i \in Insts |-> NoObject]
    /\ hist = [i \in Insts |-> NoHistory]
    /\ res = NoResult
    /\ fsChanges = 0
    /\ held = NoHeld
    /\ run = NoRun
    /\ walk = NoWalk

DefaultConstruct(i) ==
    /\ ~inst[i].alive
    /\ inst' = [inst EXCEPT ![i] = DefaultConstructor]
    /\ res' = [NoResult EXCEPT !.op = "construct", !.inst = i]
    /\ UNCHANGED <<fs, order, hist, fsChanges, held, run, walk>>

Construct(i, path, recursive) ==
    /\ ~inst[i].alive
    /\ inst' = [inst EXCEPT ![i] = PathConstructor(fs, order, path, recursive)]
    /\ hist' = [hist EXCEPT ![i].fromDir = isDirectory(fs, path)]
    /\ res' = [NoResult EXCEPT !.op = "construct", !.inst = i, !.name = path]
    /\ UNCHANGED <<fs, order, fsChanges, held, run, walk>>

Entries(i) ==
    /\ inst[i].alive
    /\ LET r == entries(fs, order, inst[i])
           h == Scanned(i, r)
       IN  /\ inst' = [inst EXCEPT ![i] = r.c]
           /\ hist' = IF r.thrown
                      THEN h
                      ELSE IF hist[i].seen = << >>
                      THEN [h EXCEPT ![i].seen = r.value]
                      ELSE [h EXCEPT ![i].again = TRUE]
           /\ held' = IF r.thrown
                      THEN held
                      ELSE [of |-> i, shared |-> r.shared, value |-> r.value,
                            touched |-> 0]
           /\ res' = [NoResult EXCEPT !.op = "entries", !.inst = i,
                                      !.status = Status(r), !.entries = r.value]
    /\ UNCHANGED <<fs, order, fsChanges, run, walk>>

GetEntry(i, name, matchpath) ==
    /\ inst[i].alive
    /\ LET r == getEntry(fs, order, inst[i], name, matchpath)
       IN  /\ inst' = [inst EXCEPT ![i] = r.c]
           /\ hist' = Scanned(i, r)
           /\ res' = [NoResult EXCEPT !.op = "getEntry", !.inst = i,
                                      !.name = name, !.mode = matchpath,
                                      !.status = Status(r), !.entry = r.value]
    /\ UNCHANGED <<fs, order, fsChanges, held, run, walk>>

GetInputStream(i, name, matchpath) ==
    /\ inst[i].alive
    /\ LET r == getInputStream(fs, order, inst[i], name, matchpath)
       IN  /\ inst' = [inst EXCEPT ![i] = r.c]
           /\ hist' = Scanned(i, r)
           /\ res' = [NoResult EXCEPT !.op = "getInputStream", !.inst = i,
                                      !.name = name, !.mode = matchpath,
                                      !.status = Status(r), !.stream = r.value]
    /\ UNCHANGED <<fs, order, fsChanges, held, run, walk>>

Size(i) ==
    /\ inst[i].alive
    /\ LET r == size(fs, order, inst[i])
       IN  /\ inst' = [inst EXCEPT ![i] = r.c]
           /\ hist' = Scanned(i, r)
           /\ res' = [NoResult EXCEPT !.op = "size", !.inst = i,
                                      !.status = Status(r), !.size = r.value]
    /\ UNCHANGED <<fs, order, fsChanges, held, run, walk>>

Close(i) ==
    /\ inst[i].alive
    /\ inst' = [inst EXCEPT ![i] = close(inst[i])]
    /\ hist' = [hist EXCEPT ![i].closed = TRUE]
    /\ res' = [NoResult EXCEPT !.op = "close", !.inst = i]
    /\ UNCHANGED <<fs, order, fsChanges, held, run, walk>>

Clone(i, j) ==
    /\ inst[i].alive
    /\ ~inst[j].alive
    /\ inst' = [inst EXCEPT ![j] = clone(inst[i])]
    /\ hist' = [hist EXCEPT ![j] = [hist[i] EXCEPT !.scans = 0, !.seen = << >>, !.again = FALSE]]
    /\ res' = [NoResult EXCEPT !.op = "clone", !.inst = j, !.other = i]
    /\ UNCHANGED <<fs, order, fsChanges, held, run, walk>>

\* another program creates, removes or replaces one node of the tree
FsChange(p, k) ==
    /\ fsChanges < MaxFsChanges
    /\ k # fs[p]
    /\ WellFormed([fs EXCEPT ![p] = k])
    /\ fs' = [fs EXCEPT ![p] = k]
    /\ fsChanges' = fsChanges + 1
    /\ UNCHANGED <<order, inst, hist, res, held, run, walk>>

Next ==
    \/ DefaultConstruct("orig")
    \/ \E path \in CtorPaths, recursive \in BOOLEAN :
            Construct("orig", path, recursive)
    \/ \E i \in Insts : Entries(i)
    \/ \E i \in Insts, name \in LookupNames, matchpath \in MatchPath :
            GetEntry(i, name, matchpath)
    \/ \E i \in Insts, name \in LookupNames, matchpath \in MatchPath :
            GetInputStream(i, name, matchpath)
    \/ \E i \in Insts : Size(i)
    \/ \E i \in Insts : Close(i)
    \/ \E p \in Paths, k \in Kind : FsChange(p, k)

\* one object, over every directory tree
Spec == Init /\ [][Next]_vars

\* the tree d/{a/{b}, b} with d/a a directory and the rest files
FullTree ==
    [p \in Paths |-> IF p \in {Root, Root \o <<"a">>} THEN "dir" ELSE "file"]

InitClone ==
    /\ Init
    /\ fs = FullTree
    /\ order = <<"a", "b">>

\* the name looked up in the object and in its clone
CloneLookupNames == {Root \o <<"a", "b">>}

NextClone ==
    \/ DefaultConstruct("orig")
    \/ \E path \in CtorPaths, recursive \in BOOLEAN :
            Construct("orig", path, recursive)
    \/ Clone("orig", "copy")
    \/ \E i \in Insts : Entries(i)
    \/ \E i \in Insts, name \in CloneLookupNames, matchpath \in MatchPath :
            GetEntry(i, name, matchpath)
    \/ \E i \in Insts, name \in CloneLookupNames, matchpath \in MatchPath :
            GetInputStream(i, name, matchpath)
    \/ \E i \in Insts : Size(i)
    \/ \E i \in Insts : Close(i)
    \/ \E p \in Paths, k \in Kind : FsChange(p, k)

\* an object and its clone, over one directory tree that changes
SpecClone == InitClone /\ [][NextClone]_vars

Reverse(q) == [k \in 1..Len(q) |-> q[Len(q) + 1 - k]]

\* the ways the client changes the sequence it keeps: removing the last
\* element, adding an element, reordering
Mutations == {"pop", "push", "reverse"}

Mutated(q, how) ==
    IF how = "pop" THEN SubSeq(q, 1, Len(q) - 1)
    ELSE IF how = "push" THEN Append(q, q[1])
    ELSE Reverse(q)

\* the client changes the sequence it got from entries()
MutateHeld(how) ==
    /\ held.of # ""
    /\ held.touched < MaxMutations
    /\ View(held, inst) # << >>
    /\ LET new == Mutated(View(held, inst), how)
       IN  IF held.shared
           THEN /\ inst' = [inst EXCEPT ![held.of].m_entries = new]
                /\ held' = [held EXCEPT !.touched = @ + 1]
           ELSE /\ inst' = inst
                /\ held' = [held EXCEPT !.value = new, !.touched = @ + 1]
    /\ UNCHANGED <<fs, order, hist, res, fsChanges, run, walk>>

NextCopy ==
    \/ \E path \in CtorPaths, recursive \in BOOLEAN :
            Construct("orig", path, recursive)
    \/ Entries("orig")
    \/ \E name \in CloneLookupNames, matchpath \in MatchPath :
            GetEntry("orig", name, matchpath)
    \/ Size("orig")
    \/ Close("orig")
    \/ \E how \in Mutations : MutateHeld(how)
    \/ \E p \in Paths, k \in Kind : FsChange(p, k)

\* one object and the sequence the client got from entries() and changes
SpecCopy == InitClone /\ [][NextCopy]_vars

\* size() on a valid, not loaded collection, in which the scan is left by
\* an exception after n entries
SizeThrows(i, n) ==
    /\ inst[i].alive
    /\ mustBeValid(inst[i])
    /\ ~inst[i].m_entries_loaded
    /\ n \in FaultPoints(loadEntries(fs, order, inst[i]).c.m_entries,
                          inst[i].m_recursive)
    /\ inst' = [inst EXCEPT ![i] = loadEntriesThrows(fs, order, inst[i], n)]
    /\ hist' = [hist EXCEPT ![i].scans = @ + 1, ![i].scanFs = fs]
    /\ res' = [NoResult EXCEPT !.op = "size", !.inst = i, !.status = "Exception"]
    /\ UNCHANGED <<fs, order, fsChanges, held, run, walk>>

NextFail ==
    \/ \E path \in CtorPaths, recursive \in BOOLEAN :
            Construct("orig", path, recursive)
    \/ Entries("orig")
    \/ \E name \in CloneLookupNames, matchpath \in MatchPath :
            GetEntry("orig", name, matchpath)
    \/ Size("orig")
    \/ \E n \in 1..Cardinality(Paths) : SizeThrows("orig", n)
    \/ Close("orig")

\* one object, over every directory tree, with scans that an exception ends
SpecFail == Init /\ [][NextFail]_vars

----------------------------------------------------------------------------
(* Two threads calling size() on one valid collection that is not loaded,  *)
(* a statement of loadEntries() at a time; run.locked says whether the      *)
(* client guards every call by one exclusive lock                           *)

InitRace ==
    /\ fs \in {F \in [Paths -> Kind] :
                 WellFormed(F) /\ F[<<"f">>] = "file" /\ F[Root] = "dir"}
    /\ order \in Perms(Names)
    /\ inst = [i \in Insts |-> NoObject]
    /\ hist = [i \in Insts |-> NoHistory]
    /\ res = NoResult
    /\ fsChanges = 0
    /\ held = NoHeld
    /\ walk = NoWalk
    /\ \E locked \in BOOLEAN, recursive \in BOOLEAN :
            run = [NoRun EXCEPT !.locked = locked,
                                !.obj = PathConstructor(fs, order, Root, recursive)]

Rest == <<fs, order, inst, hist, res, fsChanges, held, walk>>

\* the thread calls size(); with the lock, once it has acquired it
CallSize(t) ==
    /\ run.pc[t] = "idle"
    /\ run.locked => run.lock = ""
    /\ run' = [run EXCEPT !.pc[t] = "valid",
                          !.lock = IF run.locked THEN t ELSE @]
    /\ UNCHANGED Rest

\* loadEntries(): mustBeValid()
CheckValid(t) ==
    /\ run.pc[t] = "valid"
    /\ run' = [run EXCEPT !.pc[t] = IF mustBeValid(run.obj) THEN "test" ELSE "thrown",
                          !.lock = IF mustBeValid(run.obj) THEN @ ELSE ""]
    /\ UNCHANGED Rest

\* loadEntries(): if(!m_entries_loaded)
TestLoaded(t) ==
    /\ run.pc[t] = "test"
    /\ run' = [run EXCEPT !.pc[t] = IF ~run.obj.m_entries_loaded THEN "set" ELSE "return"]
    /\ UNCHANGED Rest

\* loadEntries(): m_entries_loaded = true
SetLoaded(t) ==
    /\ run.pc[t] = "set"
    /\ run' = [run EXCEPT !.obj = setLoaded(@), !.pc[t] = "root"]
    /\ UNCHANGED Rest

\* loadEntries(): the root's entry is pushed, and load() is called
PushRoot(t) ==
    /\ run.pc[t] = "root"
    /\ run' = [run EXCEPT !.obj = pushRoot(fs, @), !.pc[t] = "load",
                          !.todo[t] = pushes(fs, order, run.obj)]
    /\ UNCHANGED Rest

\* load(): the next entry is pushed
PushEntry(t) ==
    /\ run.pc[t] = "load"
    /\ run.todo[t] # << >>
    /\ run' = [run EXCEPT !.obj = pushEntry(@, Head(run.todo[t])),
                          !.todo[t] = Tail(@)]
    /\ UNCHANGED Rest

\* load() returns
LoadReturns(t) ==
    /\ run.pc[t] = "load"
    /\ run.todo[t] = << >>
    /\ run' = [run EXCEPT !.pc[t] = "return"]
    /\ UNCHANGED Rest

\* size(): return m_entries.size(); the lock, if any, is released
ReturnSize(t) ==
    /\ run.pc[t] = "return"
    /\ run' = [run EXCEPT !.ret[t] = Len(run.obj.m_entries), !.pc[t] = "done",
                          !.lock = ""]
    /\ UNCHANGED Rest

NextRace ==
    \/ \E t \in Threads : CallSize(t)
    \/ \E t \in Threads : CheckValid(t)
    \/ \E t \in Threads : TestLoaded(t)
    \/ \E t \in Threads : SetLoaded(t)
    \/ \E t \in Threads : PushRoot(t)
    \/ \E t \in Threads : PushEntry(t)
    \/ \E t \in Threads : LoadReturns(t)
    \/ \E t \in Threads : ReturnSize(t)

SpecRace == InitRace /\ [][NextRace]_vars

----------------------------------------------------------------------------
(* The scan a call of load() at a time, over a tree in which one directory  *)
(* may be a symbolic link to one of its ancestors. walk.link says where the *)
(* link is and where it leads; fs gives the link's node the kind "dir", as  *)
(* stat() does. walk.stack holds a frame for each call of load() that has   *)
(* not returned: its subdir, the listing it iterates and the position k.    *)

Ancestors(p) == {SubSeq(p, 1, n) : n \in 1..(Len(p) - 1)}

\* the links a tree may hold: none, or a link in place of an empty directory
\* below the root, to the root or to a directory between
Links(F) ==
    {NoLink} \cup
    {l \in [at : {x \in Paths : F[x] = "dir"}, to : Paths] :
        /\ \A y \in Paths : Parent(y) = l.at => F[y] = "none"
        /\ l.to \in Ancestors(l.at)
        /\ l.to = Root \/ Root \in Ancestors(l.to)}

RECURSIVE resolveFrom(_, _, _)

\* the node the path q/rest names, q being resolved up to its last component
resolveFrom(lk, q, rest) ==
    LET r == IF q = lk.at THEN lk.to ELSE q
    IN  IF rest = << >> THEN r ELSE resolveFrom(lk, r \o <<Head(rest)>>, Tail(rest))

\* the node a path names, symbolic links followed
resolve(lk, p) == IF p = << >> THEN p ELSE resolveFrom(lk, <<Head(p)>>, Tail(p))

\* new DirectoryEntry(path, ""): the name is the path as given, the kind that
\* of the node the path leads to
statEntry(F, lk, p) == [DirectoryEntry(F, resolve(lk, p), "") EXCEPT !.name = p]

\* a new call load(subdir): dir_it over m_filepath + subdir
frame(F, ord, lk, c, subdir) ==
    [subdir |-> subdir,
     listing |-> dir_it(F, ord, resolve(lk, c.m_filepath \o subdir)),
     k |-> 1]

InitLink ==
    /\ fs \in {F \in [Paths -> Kind] :
                 WellFormed(F) /\ F[<<"f">>] = "file" /\ F[Root] = "dir"}
    /\ order \in Perms(Names)
    /\ inst = [i \in Insts |-> NoObject]
    /\ hist = [i \in Insts |-> NoHistory]
    /\ res = NoResult
    /\ fsChanges = 0
    /\ held = NoHeld
    /\ run = NoRun
    /\ \E lk \in Links(fs), recursive \in BOOLEAN :
            walk = [NoWalk EXCEPT !.link = lk,
                                  !.obj = PathConstructor(fs, order, Root, recursive)]

RestLink == <<fs, order, inst, hist, res, fsChanges, held, run>>

Top == walk.stack[Len(walk.stack)]

\* the entry load() is at: *it of the innermost call
It == Top.listing[Top.k]

\* the first query: loadEntries() up to its call of load(FilePath())
BeginScan ==
    /\ walk.pc = "idle"
    /\ mustBeValid(walk.obj)
    /\ ~walk.obj.m_entries_loaded
    /\ walk' = [walk EXCEPT !.pc = "scan",
                            !.obj = pushRoot(fs, setLoaded(walk.obj)),
                            !.stack = <<frame(fs, order, walk.link, walk.obj, << >>)>>]
    /\ UNCHANGED RestLink

\* load(): "." and ".." are skipped
SkipDots ==
    /\ walk.pc = "scan"
    /\ Top.k <= Len(Top.listing)
    /\ It \in {".", ".."}
    /\ walk' = [walk EXCEPT !.stack[Len(walk.stack)].k = @ + 1]
    /\ UNCHANGED RestLink

\* load(): an entry is pushed and not descended into
AddEntry ==
    /\ walk.pc = "scan"
    /\ Top.k <= Len(Top.listing)
    /\ It \notin {".", ".."}
    /\ LET ent == statEntry(fs, walk.link, entryPath(walk.obj.m_filepath, Top.subdir, It))
       IN  /\ ~descend(walk.obj.m_recursive, ent)
           /\ walk' = [walk EXCEPT !.obj = pushEntry(@, ent),
                                   !.stack[Len(walk.stack)].k = @ + 1]
    /\ UNCHANGED RestLink

\* load(): an entry is pushed and load(subdir + *it) is called
Descend ==
    /\ walk.pc = "scan"
    /\ Top.k <= Len(Top.listing)
    /\ It \notin {".", ".."}
    /\ Len(walk.stack) < MaxDepth
    /\ LET ent == statEntry(fs, walk.link, entryPath(walk.obj.m_filepath, Top.subdir, It))
       IN  /\ descend(walk.obj.m_recursive, ent)
           /\ walk' = [walk EXCEPT
                         !.obj = pushEntry(@, ent),
                         !.stack = Append(@, frame(fs, order, walk.link, walk.obj,
                                                   Top.subdir \o <<It>>))]
    /\ UNCHANGED RestLink

\* load(): the listing is at its end and the call returns, to the loop of
\* the call it was made from or to loadEntries()
ReturnLoad ==
    /\ walk.pc = "scan"
    /\ Top.k > Len(Top.listing)
    /\ IF Len(walk.stack) = 1
       THEN walk' = [walk EXCEPT !.pc = "done", !.stack = << >>]
       ELSE walk' = [walk EXCEPT
                       !.stack = [SubSeq(@, 1, Len(@) - 1)
                                     EXCEPT ![Len(walk.stack) - 1].k = @ + 1]]
    /\ UNCHANGED RestLink

NextLink ==
    \/ BeginScan
    \/ SkipDots
    \/ AddEntry
    \/ Descend
    \/ ReturnLoad

SpecLink == InitLink /\ [][NextLink]_vars

----------------------------------------------------------------------------
(* Properties                                                               *)

Queries == {"entries", "getEntry", "getInputStream", "size"}

\* the latest call was a query on object i
QueryOn(r, i) == r.op \in Queries /\ r.inst = i

IsPrefix(p, q) == Len(p) <= Len(q) /\ SubSeq(q, 1, Len(p)) = p

\* the nodes of tree F below root, at any depth
Below(F, root) ==
    {p \in Paths : Len(p) > Len(root) /\ IsPrefix(root, p) /\ F[p] # "none"}

\* the regular files and the subdirectories directly in root
FilesIn(F, root) == {p \in Below(F, root) : Len(p) = Len(root) + 1 /\ F[p] = "file"}
DirsIn(F, root) == {p \in Below(F, root) : Len(p) = Len(root) + 1 /\ F[p] = "dir"}

\* C1: an object that was default-constructed, or constructed over a path
\* that was not a directory, exists, is not valid, and every query on it
\* fails with InvalidState.
C1_InvalidFromConstruction ==
    \A i \in Insts :
        (inst[i].alive /\ ~hist[i].fromDir) =>
            /\ ~inst[i].m_valid
            /\ QueryOn(res, i) => res.status = "InvalidState"

\* a query on an object constructed over the plain file "f" has failed
C1_Witness ==
    /\ inst["orig"].alive
    /\ inst["orig"].m_filepath = <<"f">>
    /\ ~hist["orig"].closed
    /\ res.op = "getInputStream"
    /\ res.inst = "orig"
    /\ res.status = "InvalidState"

\* C2: once close() was called on an object it is never valid again, every
\* later query on it fails with InvalidState, and it is never scanned again.
C2_ClosedForever ==
    [][\A i \in Insts :
          /\ hist'[i].closed =>
                /\ ~inst'[i].m_valid
                /\ QueryOn(res', i) => res'.status = "InvalidState"
          /\ hist[i].closed =>
                /\ hist'[i].closed
                /\ hist'[i].scans = hist[i].scans
                /\ ~inst'[i].m_entries_loaded
                /\ inst'[i].m_entries = << >>]_vars

\* a query has failed on an object that was scanned and then closed
C2_Witness ==
    /\ hist["orig"].closed
    /\ hist["orig"].scans = 1
    /\ hist["orig"].seen # << >>
    /\ res.op = "entries"
    /\ res.inst = "orig"
    /\ res.status = "InvalidState"

\* C3: an object is scanned at most once, and every successful entries()
\* call on it returns the sequence its first successful entries() call
\* returned.
C3_ScanOnce ==
    \A i \in Insts :
        /\ hist[i].scans <= 1
        /\ (res.op = "entries" /\ res.inst = i /\ res.status = "ok") =>
                res.entries = hist[i].seen

\* entries() has succeeded a second time, after the tree changed
C3_Witness ==
    /\ hist["orig"].again
    /\ res.op = "entries"
    /\ res.inst = "orig"
    /\ res.status = "ok"
    /\ Len(res.entries) > 1
    /\ hist["orig"].scanFs # fs

\* C4: size() is 1 plus the number of nodes found at any depth below the
\* root when the collection is recursive, and 1 + N + M when it is not,
\* N and M being the regular files and the subdirectories directly in the
\* root when the collection was scanned.
C4_Size ==
    \A i \in Insts :
        (res.op = "size" /\ res.inst = i /\ res.status = "ok") =>
            LET F == hist[i].scanFs
                root == inst[i].m_filepath
            IN  IF inst[i].m_recursive
                THEN res.size = 1 + Cardinality(Below(F, root))
                ELSE res.size = 1 + Cardinality(FilesIn(F, root))
                                  + Cardinality(DirsIn(F, root))

\* size() of a collection that is not recursive, over a root whose
\* subdirectory is not empty
C4_Witness ==
    /\ res.op = "size"
    /\ res.inst = "orig"
    /\ res.status = "ok"
    /\ ~inst["orig"].m_recursive
    /\ hist["orig"].scanFs[Root \o <<"a", "b">>] # "none"
    /\ Cardinality(FilesIn(hist["orig"].scanFs, Root)) = 1
    /\ Cardinality(DirsIn(hist["orig"].scanFs, Root)) = 1
    /\ res.size = 3

\* the fields clone() is to carry over
State(c) ==
    <<c.m_filepath, c.m_recursive, c.m_valid, c.m_entries_loaded, c.m_entries>>

\* C5: clone() gives an object with the root path, recursion flag, validity,
\* loaded flag and entries of the original and leaves the original as it
\* was; afterwards a call on one of the two objects changes nothing of the
\* other, and a query on either is answered from that object's own entries.
C5_CloneIndependent ==
    [][/\ (~inst["copy"].alive /\ inst'["copy"].alive) =>
              /\ State(inst'["copy"]) = State(inst["orig"])
              /\ inst'["orig"] = inst["orig"]
       /\ \A i \in Insts : \A j \in Insts \ {i} :
              (inst[i].alive /\ inst[j].alive /\ QueryOn(res', i)) =>
                  inst'[j] = inst[j]
       /\ \A i \in Insts : \A j \in Insts \ {i} :
              (inst[j].alive /\ res'.op = "close" /\ res'.inst = i) =>
                  inst'[j] = inst[j]
       /\ \A i \in Insts :
              (res'.op = "size" /\ res'.inst = i /\ res'.status = "ok"
                    /\ inst[i].m_entries_loaded) =>
                  res'.size = Len(inst[i].m_entries)]_vars

\* the original was scanned, cloned and closed, and the clone, still valid
\* and loaded, has answered size() from its own four entries
C5_Witness ==
    /\ hist["orig"].closed
    /\ hist["orig"].scans = 1
    /\ inst["copy"].m_valid
    /\ inst["copy"].m_entries_loaded
    /\ hist["copy"].scans = 0
    /\ res.op = "size"
    /\ res.inst = "copy"
    /\ res.status = "ok"
    /\ res.size = 4
    /\ Len(inst["copy"].m_entries) = 4

\* the positions of the entries of c that name matches under matchpath
Hits(c, name, matchpath) ==
    {k \in DOMAIN c.m_entries :
        \/ matchpath = "MATCH" /\ c.m_entries[k].name = name
        \/ /\ matchpath = "IGNORE"
           /\ getFileName(c.m_entries[k].name) = getFileName(name)}

First(S) == CHOOSE k \in S : \A h \in S : k <= h

Scope(F, root, recursive) ==
    {root} \cup {p \in Below(F, root) : recursive \/ Len(p) = Len(root) + 1}

\* the name of an entry as a path relative to root
Relative(root, p) == SubSeq(p, Len(root) + 1, Len(p))

\* C7 as stated: getEntry(name, MATCH) finds an entry exactly when the name,
\* relative to the root, of some scanned node equals name, and
\* getEntry(name, IGNORE) exactly when the last component of some scanned
\* node equals the last component of name; finding nothing is not an error.
C7_RelativeNameLookup ==
    \A i \in Insts :
        (res.op = "getEntry" /\ res.inst = i /\ inst[i].m_valid) =>
            LET scope == Scope(hist[i].scanFs, inst[i].m_filepath, inst[i].m_recursive)
            IN  /\ res.status = "ok"
                /\ res.mode = "MATCH" =>
                       (res.entry # << >> <=>
                            \E p \in scope : Relative(inst[i].m_filepath, p) = res.name)
                /\ res.mode = "IGNORE" =>
                       (res.entry # << >> <=>
                            \E p \in scope : getFileName(p) = getFileName(res.name))

\* C7, amended: getEntry(name, MATCH) finds an entry exactly when name is the
\* path of a scanned node with the root path in front (the root itself
\* included), and the entry found has that name; getEntry(name, IGNORE)
\* finds one exactly when the last component of some scanned node's path
\* equals the last component of name; finding nothing is not an error.
C7_FullNameLookup ==
    \A i \in Insts :
        (res.op = "getEntry" /\ res.inst = i /\ inst[i].m_valid) =>
            LET scope == Scope(hist[i].scanFs, inst[i].m_filepath, inst[i].m_recursive)
            IN  /\ res.status = "ok"
                /\ res.mode = "MATCH" =>
                       /\ res.entry # << >> <=> res.name \in scope
                       /\ res.entry # << >> => res.entry[1].name = res.name
                /\ res.mode = "IGNORE" =>
                       /\ res.entry # << >> <=>
                              \E p \in scope : getFileName(p) = getFileName(res.name)
                       /\ res.entry # << >> =>
                              getFileName(res.entry[1].name) = getFileName(res.name)

\* the file a/b below the root was found under the name d/a/b
C7_Witness ==
    /\ res.op = "getEntry"
    /\ res.inst = "orig"
    /\ res.status = "ok"
    /\ res.mode = "MATCH"
    /\ res.name = Root \o <<"a", "b">>
    /\ res.entry # << >>
    /\ ~res.entry[1].isDir

\* C8 as stated: when the entries are loaded the first one is the root's and
\* has the empty name, and no other entry's name starts with the root path.
C8_RootNameEmpty ==
    \A i \in Insts :
        inst[i].m_entries_loaded =>
            /\ Len(inst[i].m_entries) >= 1
            /\ inst[i].m_entries[1].name = << >>
            /\ \A k \in 2..Len(inst[i].m_entries) :
                   ~IsPrefix(inst[i].m_filepath, inst[i].m_entries[k].name)

\* C8, amended: when the entries are loaded the first one is the root's and
\* its name is the root path, and the name of every other entry is the root
\* path followed by the non-empty path of a node relative to the root.
C8_RootFirst ==
    \A i \in Insts :
        inst[i].m_entries_loaded =>
            /\ Len(inst[i].m_entries) >= 1
            /\ inst[i].m_entries[1].name = inst[i].m_filepath
            /\ \A k \in 2..Len(inst[i].m_entries) :
                   /\ IsPrefix(inst[i].m_filepath, inst[i].m_entries[k].name)
                   /\ Relative(inst[i].m_filepath, inst[i].m_entries[k].name) # << >>

\* a tree of three nodes below the root has been loaded
C8_Witness ==
    /\ inst["orig"].m_entries_loaded
    /\ Len(inst["orig"].m_entries) = 4
    /\ inst["orig"].m_entries[1].isDir

\* C9: an object is valid exactly when it was constructed over a path that
\* was a directory then and close() was not called on it since, whatever
\* queries ran on it and however the tree changed.
C9_ValidIff ==
    \A i \in Insts :
        inst[i].alive =>
            (inst[i].m_valid <=> (hist[i].fromDir /\ ~hist[i].closed))

\* a query ran on a valid object whose root is no directory any more
C9_Witness ==
    /\ inst["orig"].m_valid
    /\ fs[inst["orig"].m_filepath] # "dir"
    /\ QueryOn(res, "orig")
    /\ res.status = "ok"

\* C10: a constructor leaves the object not loaded and without entries, and
\* the entries are filled in only by a query on a valid object that was not
\* loaded, which is then loaded.
C10_NoScanAtConstruction ==
    [][\A i \in Insts :
          /\ (~inst[i].alive /\ inst'[i].alive /\ res'.op = "construct") =>
                /\ ~inst'[i].m_entries_loaded
                /\ inst'[i].m_entries = << >>
                /\ hist'[i].scans = 0
          /\ (inst[i].alive /\ inst[i].m_entries = << >> /\ inst'[i].m_entries # << >>) =>
                /\ QueryOn(res', i)
                /\ res'.status = "ok"
                /\ inst[i].m_valid
                /\ ~inst[i].m_entries_loaded
                /\ hist'[i].scans = hist[i].scans + 1
          /\ (inst[i].alive /\ QueryOn(res', i) /\ res'.status = "ok") =>
                inst'[i].m_entries_loaded]_vars

\* an object was constructed over a directory that is not empty
C10_Witness ==
    /\ res.op = "construct"
    /\ inst["orig"].m_valid
    /\ Below(fs, inst["orig"].m_filepath) # {}
    /\ ~inst["orig"].m_entries_loaded
    /\ inst["orig"].m_entries = << >>

C12_FirstMatchWins ==
    [][\A i \in Insts :
          (res'.op = "getEntry" /\ res'.inst = i /\ res'.status = "ok") =>
              LET hits == Hits(inst'[i], res'.name, res'.mode)
              IN  /\ hits # {} => res'.entry = <<inst'[i].m_entries[First(hits)]>>
                  /\ (res.op = "getEntry" /\ res.inst = i /\ res.status = "ok"
                            /\ res.name = res'.name /\ res.mode = res'.mode) =>
                         res'.entry = res.entry]_vars

\* two entries have the last component "b", and the lookup that ignores the
\* path returned the one that was listed first
C12_Witness ==
    /\ res.op = "getEntry"
    /\ res.inst = "orig"
    /\ res.status = "ok"
    /\ res.mode = "IGNORE"
    /\ res.name = <<"x", "b">>
    /\ Cardinality(Hits(inst["orig"], res.name, res.mode)) = 2
    /\ res.entry = <<inst["orig"].m_entries[First(Hits(inst["orig"], res.name, res.mode))]>>
    /\ res.entry[1].name = Root \o <<"a", "b">>

\* the position of name n in the listing order
Position(ord, n) == CHOOSE k \in DOMAIN ord : ord[k] = n

\* the positions of the entries of e that lie below the entry at position k
Under(e, k) == {j \in DOMAIN e : j # k /\ IsPrefix(e[k].name, e[j].name)}

\* C13: the entries of a recursive collection are the root, then the tree in
\* depth-first pre-order: the entries below a directory are one block right
\* after that directory's entry, and the entries of one directory come in
\* listing order.
C13_PreOrder ==
    \A i \in Insts :
        (inst[i].m_entries_loaded /\ inst[i].m_recursive) =>
            LET e == inst[i].m_entries
            IN  /\ e[1].name = inst[i].m_filepath
                /\ \A k \in DOMAIN e :
                       Under(e, k) = (k + 1)..(k + Cardinality(Under(e, k)))
                /\ \A j, k \in DOMAIN e :
                       (j < k /\ Len(e[j].name) > 1
                             /\ Len(e[j].name) = Len(e[k].name)
                             /\ Parent(e[j].name) = Parent(e[k].name)) =>
                           Position(order, getFileName(e[j].name))
                               < Position(order, getFileName(e[k].name))

\* the directory a, the node below it, and only then its sibling b
C13_Witness ==
    /\ inst["orig"].m_entries_loaded
    /\ inst["orig"].m_recursive
    /\ Len(inst["orig"].m_entries) = 4
    /\ inst["orig"].m_entries[2].name = Root \o <<"a">>
    /\ inst["orig"].m_entries[3].name = Root \o <<"a", "b">>
    /\ inst["orig"].m_entries[4].name = Root \o <<"b">>

\* C14: m_entries_loaded turns true only in a query on a valid object and
\* turns false only in close(), which leaves the object not valid and without
\* entries; an object that was scanned is not scanned again.
C14_LoadedTransitions ==
    [][\A i \in Insts :
          inst[i].alive =>
              /\ (~inst[i].m_entries_loaded /\ inst'[i].m_entries_loaded) =>
                     /\ QueryOn(res', i)
                     /\ res'.status = "ok"
                     /\ inst[i].m_valid
              /\ (inst[i].m_entries_loaded /\ ~inst'[i].m_entries_loaded) =>
                     /\ res'.op = "close"
                     /\ res'.inst = i
                     /\ ~inst'[i].m_valid
                     /\ inst'[i].m_entries = << >>
              /\ hist[i].scans >= 1 => hist'[i].scans = hist[i].scans]_vars

\* close() has just reset a collection that was loaded
C14_Witness ==
    /\ res.op = "close"
    /\ res.inst = "orig"
    /\ hist["orig"].scans = 1
    /\ ~inst["orig"].m_entries_loaded
    /\ ~inst["orig"].m_valid
    /\ inst["orig"].m_entries = << >>

\* C15: a query on an object that is not valid fails with InvalidState
\* whatever the directory tree holds, and leaves the object as it was: not
\* loaded, without entries, with its path and recursion flag.
C15_InvalidQueryNoEffect ==
    [][\A i \in Insts :
          (inst[i].alive /\ ~inst[i].m_valid) =>
              /\ loadEntries(fs, order, inst[i]) =
                     [thrown |-> TRUE, scanned |-> FALSE, c |-> inst[i]]
              /\ loadEntries(NoFs, order, inst[i]) = loadEntries(fs, order, inst[i])
              /\ QueryOn(res', i) =>
                     /\ res'.status = "InvalidState"
                     /\ inst'[i] = inst[i]
                     /\ hist'[i] = hist[i]
                     /\ ~inst'[i].m_entries_loaded
                     /\ inst'[i].m_entries = << >>]_vars

\* size() has failed on an object constructed over the missing path "m",
\* which keeps that path
C15_Witness ==
    /\ res.op = "size"
    /\ res.inst = "orig"
    /\ res.status = "InvalidState"
    /\ inst["orig"].m_filepath = <<"m">>
    /\ ~inst["orig"].m_recursive
    /\ ~inst["orig"].m_entries_loaded
    /\ inst["orig"].m_entries = << >>

\* C16: the scan leaves no partial state: an object whose entries count as
\* loaded holds every node the scan was to reach, so size(), entries() and
\* getEntry() never answer from entries that an interrupted scan left.
C16_NoPartialScan ==
    \A i \in Insts :
        LET scope == Scope(hist[i].scanFs, inst[i].m_filepath, inst[i].m_recursive)
        IN  /\ inst[i].m_entries_loaded => Len(inst[i].m_entries) = Cardinality(scope)
            /\ (res.op = "size" /\ res.inst = i /\ res.status = "ok") =>
                   res.size = Cardinality(scope)
            /\ (res.op = "entries" /\ res.inst = i /\ res.status = "ok") =>
                   Len(res.entries) = Cardinality(scope)
            /\ (res.op = "getEntry" /\ res.inst = i /\ res.status = "ok"
                      /\ res.mode = "MATCH") =>
                   (res.entry # << >> <=> res.name \in scope)

\* what one complete scan of the tree leaves in the shared object
Complete ==
    loadEntries(fs, order, PathConstructor(fs, order, Root, run.obj.m_recursive)).c

\* C17: when every call is guarded by one exclusive lock, a thread that
\* reads the entries reads the result of exactly one complete scan, and
\* size() returns its length; without the lock a state is reachable in which
\* size() has returned something else (C17_Witness).
C17_LockedIsSafe ==
    run.locked =>
        \A t \in Threads :
            /\ run.pc[t] \in {"return", "done"} => run.obj = Complete
            /\ run.pc[t] = "done" => run.ret[t] = Len(Complete.m_entries)
            /\ run.pc[t] \in {"set", "root", "load"} =>
                   \A u \in Threads \ {t} : run.pc[u] \in {"idle", "done"}

\* without a lock, a thread found the flag set by the other thread and
\* returned the size of entries the other thread was still pushing
C17_Witness ==
    /\ ~run.locked
    /\ \E t \in Threads : \E u \in Threads \ {t} :
            /\ run.pc[t] = "done"
            /\ run.ret[t] < Len(Complete.m_entries)
            /\ run.pc[u] \in {"root", "load"}

\* C18: when the directory tree changes under a loaded object, size(),
\* entries() and getEntry() on the object give what they gave before the
\* change, namely what the cache holds, and leave the object as it is.
C18_Snapshot ==
    [][fs' # fs =>
          \A i \in Insts :
              (inst[i].alive /\ inst[i].m_valid /\ inst[i].m_entries_loaded) =>
                  /\ inst'[i] = inst[i]
                  /\ size(fs', order, inst[i]) = size(fs, order, inst[i])
                  /\ size(fs', order, inst[i]).c = inst[i]
                  /\ size(fs', order, inst[i]).value = Len(inst[i].m_entries)
                  /\ entries(fs', order, inst[i]) = entries(fs, order, inst[i])
                  /\ entries(fs', order, inst[i]).value = inst[i].m_entries
                  /\ \A name \in LookupNames, matchpath \in MatchPath :
                         getEntry(fs', order, inst[i], name, matchpath)
                             = getEntry(fs, order, inst[i], name, matchpath)]_vars

\* size() on a loaded object after the tree has changed gives a number that
\* is not the number of nodes the tree now holds
C18_Witness ==
    /\ res.op = "size"
    /\ res.inst = "orig"
    /\ res.status = "ok"
    /\ inst["orig"].m_entries_loaded
    /\ hist["orig"].scanFs # fs
    /\ res.size # Cardinality(Scope(fs, Root, inst["orig"].m_recursive))

\* C19: an object that is loaded is valid and has at least one entry, and an
\* object that is not loaded has no entries, in every state that
\* constructors, queries, clone() and close() called one after the other
\* can reach.
C19_LoadedInvariant ==
    \A i \in Insts :
        inst[i].alive =>
            /\ inst[i].m_entries_loaded =>
                   (inst[i].m_valid /\ inst[i].m_entries # << >>)
            /\ ~inst[i].m_entries_loaded => inst[i].m_entries = << >>

\* a loaded object next to its clone, which was loaded and has just been
\* closed
C19_Witness ==
    /\ res.op = "close"
    /\ res.inst = "copy"
    /\ inst["orig"].m_entries_loaded
    /\ Len(inst["orig"].m_entries) > 1
    /\ hist["copy"].scanFs # NoHistory.scanFs
    /\ ~inst["copy"].m_entries_loaded
    /\ inst["copy"].m_entries = << >>

\* the directories the calls of load() in progress are listing
Scanning(j) == resolve(walk.link, walk.obj.m_filepath \o walk.stack[j].subdir)

\* without a link the scan ends, with the entries loadEntries() gives; with
\* a link in a recursive collection it does not end
ScanAgrees ==
    /\ (walk.pc = "done" /\ walk.link = NoLink) =>
           walk.obj = loadEntries(fs, order,
                                  PathConstructor(fs, order, Root, walk.obj.m_recursive)).c
    /\ (walk.link # NoLink /\ walk.obj.m_recursive) => walk.pc # "done"

\* C20: the scan terminates: load() is never called for a directory while a
\* call of load() for that directory has not returned. (The tree is finite
\* and does not change during the scan, so a call nested in a call for the
\* same directory finds the same listing and makes the same nested call
\* again, without end; a scan that never nests a directory in itself is at
\* most as deep as the tree has directories and ends.)
C20_ScanTerminates ==
    \A j, k \in DOMAIN walk.stack : j < k => Scanning(j) # Scanning(k)

====
